---- MODULE Spec2Model ----
(***************************************************************************)
(* Model of the literature-retrieval orchestrator of scipaper:             *)
(* Fetcher.search with its Redis-backed TTL cache and the retry wrapper    *)
(* Fetcher._retry_on_transient (src/src/scipaper/core/fetcher.py).         *)
(*                                                                         *)
(* Python strings that the code compares, lower-cases or slices are        *)
(* modelled as sequences of code points, so that ordering and              *)
(* normalisation are computed rather than assumed.                         *)
(***************************************************************************)
EXTENDS Integers, Sequences, FiniteSets, TLC

VARIABLES
    now,            \* wall clock read by the cache backend
    cache,          \* Redis: key -> entry (raw JSON text, expires_at)
    limit,          \* the limit argument of the searches of this behaviour
    skey,           \* the sources-or-default component of their cache key
    pc,             \* position of the search coroutine
    sources,        \* the sources argument of the search in progress
    srcs,           \* the local `sources` after defaulting and validation
    idx,            \* position of the for-loop over srcs
    all_papers,     \* the local all_papers
    contrib,        \* per loop position, the list the provider returned
    failed,         \* loop positions whose provider call raised
    wrapped,        \* per name, retry-wrapped calls issued by this search
    invoked,        \* per name, provider invocations made by this search
    hit,            \* this search was served from the cache
    seen,           \* the entry stored under the key when this search started
    started,        \* the time at which this search read the cache
    cache_written,  \* this search performed a cache write
    result,         \* the list returned
    outcome,        \* "none" | "ok" | "FetcherError"
    attempt,        \* _retry_on_transient: local attempt
    w_calls,        \* invocations of func by the wrapper call in progress
    w_faults,       \* the faults func raised, in order
    waits,          \* the wait_time values slept, in order
    w_out,          \* how the wrapper call ended
    details,        \* the details dict of the FetcherError raised, if any
    f_pc,           \* position of the fetch coroutine
    f_ident,        \* fetch: the identifier argument
    f_source,       \* fetch: the source argument ("" when not given)
    f_chain,        \* fetch: the local prioritized
    f_pos,          \* fetch: 0 for the explicit source, else position in f_chain
    f_attempts,     \* fetch: names given a retry-wrapped fetch call, in order
    f_outs,         \* fetch: how each of these calls ended, in order
    f_result,       \* fetch: the value returned
    f_outcome,      \* fetch: "none" | "record" | "absent" | "FetcherError"
    d_pc,           \* deduplication: "in" | "out" | "again"
    d_in,           \* deduplication: the list passed in
    d_out,          \* deduplication: the list returned
    d_out2,         \* deduplication: the list returned for d_out
    c_read,         \* the fault the cache backend raised at this search's read
    c_write,        \* the fault the cache backend raised at this search's write
    p_pc,           \* pure operations: "idle" | "in" | "out"
    p_in,           \* pure operations: the arguments
    p_out           \* pure operations: the value returned

vars == <<now, cache, limit, skey, pc, sources, srcs, idx, all_papers,
          contrib, failed, wrapped, invoked, hit, seen, started, cache_written,
          result, outcome, attempt, w_calls, w_faults, waits, w_out, details,
          f_pc, f_ident, f_source, f_chain, f_pos, f_attempts, f_outs, f_result,
          f_outcome, d_pc, d_in, d_out, d_out2, c_read, c_write, p_pc, p_in,
          p_out>>

fetchVars == <<f_pc, f_ident, f_source, f_chain, f_pos, f_attempts, f_outs,
               f_result, f_outcome>>

dedupVars == <<d_pc, d_in, d_out, d_out2>>

cacheFaultVars == <<c_read, c_write>>

pureVars == <<p_pc, p_in, p_out>>

----------------------------------------------------------------------------
(* Bounds of the exploration *)

MaxLimit == 2
MaxTime == 3600

(* Program constants *)

MAX_RETRIES == 3
TTL == 3600

----------------------------------------------------------------------------
(* Python str as a sequence of code points *)

RECURSIVE StrLess(_, _)
StrLess(a, b) ==
    IF a = <<>> THEN b # <<>>
    ELSE IF b = <<>> THEN FALSE
    ELSE IF a[1] # b[1] THEN a[1] < b[1]
    ELSE StrLess(Tail(a), Tail(b))

IsSpace(c) == c \in {9, 10, 11, 12, 13, 32}

RECURSIVE LStrip(_)
LStrip(s) == IF s # <<>> /\ IsSpace(s[1]) THEN LStrip(Tail(s)) ELSE s

RECURSIVE RStrip(_)
RStrip(s) ==
    IF s # <<>> /\ IsSpace(s[Len(s)]) THEN RStrip(SubSeq(s, 1, Len(s) - 1)) ELSE s

Strip(s) == RStrip(LStrip(s))

LowerChar(c) == IF c >= 65 /\ c <= 90 THEN c + 32 ELSE c

Lower(s) == [i \in 1..Len(s) |-> LowerChar(s[i])]

Take(s, n) == SubSeq(s, 1, IF Len(s) < n THEN Len(s) ELSE n)

RECURSIVE JoinSp(_)
JoinSp(ss) ==
    IF ss = <<>> THEN <<>>
    ELSE IF Len(ss) = 1 THEN ss[1]
    ELSE ss[1] \o <<32>> \o JoinSp(Tail(ss))

Range(s) == {s[i] : i \in 1..Len(s)}

----------------------------------------------------------------------------
(* Provider registry *)

available_sources == <<"arxiv", "crossref", "pubmed", "semanticscholar", "xrxiv">>

LowerName(n) == IF n = "ArXiv" THEN "arxiv" ELSE n

get_source(name) == LowerName(name) \in Range(available_sources)

----------------------------------------------------------------------------
(* Error classification *)

ErrorKinds == {"NetworkError", "RateLimitError", "SourceError",
               "AuthenticationError", "AgentError"}

is_transient(e) == e \in {"NetworkError", "RateLimitError", "AgentError"}

(* variant: every error that reports itself transient is retried *)
Retryable_ByFlag(e) == is_transient(e)

Retryable(e) == e \in {"NetworkError", "RateLimitError"} /\ is_transient(e)

RECURSIVE Pow2(_)
Pow2(n) == IF n = 0 THEN 1 ELSE 2 * Pow2(n - 1)

WaitTime(a) == Pow2(a)

(* variant: the attempt counter is not advanced *)
NextAttempt_Stuck(a) == a

(* attempt += 1 *)
NextAttempt(a) == a + 1

(* variant: the budget test is off by one *)
BudgetExhausted_OffByOne(a) == a > MAX_RETRIES

BudgetExhausted(a) == a >= MAX_RETRIES

(* variant: only SourceError is absorbed at the fan-out boundary *)
SearchCatches_SourceErrorOnly(e) == e = "SourceError"

SearchCatches(e) == e = "SourceError" \/ e \in ErrorKinds \cup {"FetcherError"}

----------------------------------------------------------------------------
(* Paper records the providers return *)

S_empty == <<>>
S_2021 == <<50, 48, 50, 49>>
S_2023 == <<50, 48, 50, 51>>
S_A == <<65>>
S_B == <<66>>
S_C == <<67>>
S_doi_lc == <<49, 48, 46, 49, 47, 120>>
S_doi_uc == <<32, 49, 48, 46, 49, 47, 88>>
S_auth == <<76, 101, 101>>

Paper(src, doi, title, date) ==
    [source |-> src, doi |-> doi, title |-> title, authors |-> <<S_auth>>,
     date |-> date]

Catalog(name) ==
    IF name = "arxiv" THEN
        <<Paper("arxiv", S_doi_lc, S_B, S_2023), Paper("arxiv", S_empty, S_A, S_2021)>>
    ELSE IF name = "crossref" THEN
        <<Paper("crossref", S_empty, S_C, S_2021), Paper("crossref", S_doi_uc, S_B, S_2023)>>
    ELSE IF name = "semanticscholar" THEN
        <<Paper("semanticscholar", S_empty, S_A, S_empty),
          Paper("semanticscholar", S_empty, S_B, S_2023)>>
    ELSE <<>>

RECURSIVE SubSeqs(_)
SubSeqs(s) ==
    IF s = <<>> THEN {<<>>}
    ELSE LET r == SubSeqs(Tail(s)) IN r \cup {<<s[1]>> \o t : t \in r}

Responses(name, lim) == {r \in SubSeqs(Catalog(LowerName(name))) : Len(r) <= lim}

----------------------------------------------------------------------------
(* Deduplication key (AdvancedSearchEngine._deduplicate_results) *)

(* variant: title and joined authors are not trimmed *)
DedupKey_Untrimmed(p) ==
    LET doi == Lower(Strip(p.doi))
        title == Take(Lower(p.title), 50)
        authors == Take(Lower(JoinSp(p.authors)), 30)
    IN IF doi # <<>> THEN doi ELSE title \o <<124>> \o authors

DedupKey(p) ==
    LET doi == Lower(Strip(p.doi))
        title == Take(Lower(Strip(p.title)), 50)
        authors == Take(Lower(Strip(JoinSp(p.authors))), 30)
    IN IF doi # <<>> THEN doi ELSE title \o <<124>> \o authors

----------------------------------------------------------------------------
(* Default ordering and truncation of Fetcher.search *)

SortKeyLess(p, q) ==
    StrLess(p.date, q.date) \/ (p.date = q.date /\ StrLess(p.title, q.title))

RECURSIVE InsertDesc(_, _)
InsertDesc(x, s) ==
    IF s = <<>> THEN <<x>>
    ELSE IF SortKeyLess(s[1], x) THEN <<x>> \o s
    ELSE <<s[1]>> \o InsertDesc(x, Tail(s))

RECURSIVE SortDesc(_)
SortDesc(s) ==
    IF s = <<>> THEN <<>>
    ELSE InsertDesc(s[Len(s)], SortDesc(SubSeq(s, 1, Len(s) - 1)))

(* variant: the slice to limit is missing *)
Truncate_None(s, n) == s

Truncate(s, n) == SubSeq(s, 1, IF Len(s) < n THEN Len(s) ELSE n)

(* variant: the slice to limit is taken before the sort *)
Aggregate_TruncateFirst(papers, n) == SortDesc(Truncate(papers, n))

Aggregate(papers, n) == Truncate(SortDesc(papers), n)

----------------------------------------------------------------------------
(* Requests *)

Query == "q"

NoSources == [given |-> FALSE, names |-> <<>>]

Given(names) == [given |-> TRUE, names |-> names]

SourceOpts ==
    {NoSources, Given(<<>>), Given(<<"nosuch">>), Given(<<"arxiv", "crossref">>),
     Given(<<"ArXiv", "crossref">>), Given(<<"arxiv", "arxiv">>)}

Names == {"arxiv", "crossref", "pubmed", "semanticscholar", "xrxiv", "nosuch", "ArXiv"}

Limits == 0..MaxLimit

(* f"search:{query}:{sources or 'default'}:{limit}" *)
SourcesKey(src) ==
    IF ~src.given \/ src.names = <<>> THEN [dflt |-> TRUE, names |-> <<>>]
    ELSE [dflt |-> FALSE, names |-> src.names]

CacheKey(q, src, lim) == <<q, SourcesKey(src), lim>>

Keys == {CacheKey(Query, s, l) : s \in SourceOpts, l \in Limits}

----------------------------------------------------------------------------
(* Cache backend and its JSON encoding *)

JsonDumps(v) == [json |-> v]

JsonLoads(t) == t.json

NoEntry == [present |-> FALSE, raw |-> JsonDumps(<<>>), expires_at |-> 0]

RedisGet(key) ==
    IF cache[key].present /\ now < cache[key].expires_at
    THEN [found |-> TRUE, raw |-> cache[key].raw]
    ELSE [found |-> FALSE, raw |-> JsonDumps(<<>>)]

RedisSet(key, raw, ttl) ==
    [cache EXCEPT ![key] = [present |-> TRUE, raw |-> raw, expires_at |-> now + ttl]]

(* the text json.dumps produces is never the empty string *)
RawTruthy(raw) == TRUE

_cache_get(key) ==
    LET got == RedisGet(key) IN
    IF got.found /\ RawTruthy(got.raw)
    THEN [some |-> TRUE, value |-> JsonLoads(got.raw)]
    ELSE [some |-> FALSE, value |-> <<>>]

_cache_set(key, value, ttl) == RedisSet(key, JsonDumps(value), ttl)

(* `if cached:` in Fetcher.search *)
CachedTruthy(c) == c.some /\ c.value # <<>>

(* what the backend can raise on a call: nothing, or a connection fault *)
CacheFaults == {"none", "ConnectionError"}

CacheMiss == [some |-> FALSE, value |-> <<>>]

(* variant: _cache_get lets the backend's fault through *)
CacheGetCatches_Nothing(e) == FALSE

(* `except Exception` of _cache_get *)
CacheGetCatches(e) == TRUE

(* variant: _cache_set lets the backend's fault through *)
CacheSetCatches_Nothing(e) == FALSE

(* `except Exception` of _cache_set *)
CacheSetCatches(e) == TRUE

----------------------------------------------------------------------------
(* Source validation of Fetcher.search *)

DefaultSources(src) == IF ~src.given THEN <<"semanticscholar">> ELSE src.names

(* variant: the requested names are not validated *)
ValidSources_Unfiltered(names) == names

ValidSources(names) == SelectSeq(names, LAMBDA n : n \in Range(available_sources))

----------------------------------------------------------------------------
(* Initial state *)

NoOut == [kind |-> "none", err |-> "none", value |-> <<>>]

ZeroCount == [n \in Names |-> 0]

(* SciPaperError.__init__: self.details = details or {} *)
NoDetails == [has_query |-> FALSE, query |-> "", has_sources |-> FALSE, names |-> <<>>]

(* details={"query": query, "sources": sources} of the outer except *)
SearchFailedDetails(q, names) ==
    [has_query |-> TRUE, query |-> q, has_sources |-> TRUE, names |-> names]

(* the detail dict passed with FetcherError("No valid sources specified") *)
NoValidSourcesDetails(q, names) == NoDetails

SearchIdle ==
    /\ now = 0
    /\ cache = [k \in Keys |-> NoEntry]
    /\ pc = "idle"
    /\ sources = NoSources
    /\ srcs = <<>>
    /\ idx = 1
    /\ all_papers = <<>>
    /\ contrib = <<>>
    /\ failed = {}
    /\ wrapped = ZeroCount
    /\ invoked = ZeroCount
    /\ hit = FALSE
    /\ seen = NoEntry
    /\ started = 0
    /\ cache_written = FALSE
    /\ result = <<>>
    /\ outcome = "none"
    /\ details = NoDetails

WrapperIdle ==
    /\ attempt = 0
    /\ w_calls = 0
    /\ w_faults = <<>>
    /\ waits = <<>>
    /\ w_out = NoOut

FetchIdle ==
    /\ f_pc = "idle"
    /\ f_ident = <<>>
    /\ f_source = ""
    /\ f_chain = <<>>
    /\ f_pos = 0
    /\ f_attempts = <<>>
    /\ f_outs = <<>>
    /\ f_result = [some |-> FALSE, source |-> ""]
    /\ f_outcome = "none"

DedupIdle ==
    /\ d_pc = "in"
    /\ d_in = <<>>
    /\ d_out = <<>>
    /\ d_out2 = <<>>

CacheFaultIdle ==
    /\ c_read = "none"
    /\ c_write = "none"

PureIdle ==
    /\ p_pc = "idle"
    /\ p_in = <<>>
    /\ p_out = <<>>

Init ==
    /\ limit \in Limits
    /\ skey \in {SourcesKey(s) : s \in SourceOpts}
    /\ SearchIdle
    /\ WrapperIdle
    /\ FetchIdle
    /\ DedupIdle
    /\ CacheFaultIdle
    /\ PureIdle

wrapperVars == <<attempt, w_calls, w_faults, waits, w_out>>

scenarioVars == <<limit, skey>>

----------------------------------------------------------------------------
(* Fetcher.search, up to the first provider call *)

(* rd is what the cache backend raises when this search reads it *)
StartSearchAt(src, rd) ==
    /\ pc \in {"idle", "done"}
    /\ SourcesKey(src) = skey
    /\ rd \in CacheFaults
    /\ LET key == CacheKey(Query, src, limit)
           cached == IF rd = "none" THEN _cache_get(key) ELSE CacheMiss
           escaped == rd # "none" /\ ~CacheGetCatches(rd)
           valid == ValidSources(DefaultSources(src))
       IN /\ sources' = src
          /\ seen' = cache[key]
          /\ started' = now
          /\ all_papers' = <<>>
          /\ failed' = {}
          /\ wrapped' = ZeroCount
          /\ invoked' = ZeroCount
          /\ cache_written' = FALSE
          /\ idx' = 1
          /\ c_read' = rd
          /\ c_write' = "none"
          /\ IF escaped
             THEN /\ hit' = FALSE
                  /\ result' = <<>>
                  /\ outcome' = rd
                  /\ srcs' = <<>>
                  /\ contrib' = <<>>
                  /\ pc' = "done"
             ELSE IF CachedTruthy(cached)
             THEN /\ hit' = TRUE
                  /\ result' = cached.value
                  /\ outcome' = "ok"
                  /\ srcs' = <<>>
                  /\ contrib' = <<>>
                  /\ pc' = "done"
             ELSE /\ hit' = FALSE
                  /\ result' = <<>>
                  /\ srcs' = valid
                  /\ contrib' = [i \in 1..Len(valid) |-> <<>>]
                  /\ IF valid = <<>>
                     THEN outcome' = "FetcherError" /\ pc' = "done"
                     ELSE outcome' = "none" /\ pc' = "loop"
          /\ details' = IF ~escaped /\ ~CachedTruthy(cached) /\ valid = <<>>
                        THEN NoValidSourcesDetails(Query, valid)
                        ELSE NoDetails
    /\ UNCHANGED <<now, cache, scenarioVars, wrapperVars>>
    /\ UNCHANGED <<fetchVars, dedupVars, pureVars>>

(* a search whose cache read goes through *)
StartSearch(src) == StartSearchAt(src, "none")

(* one iteration of `for source_name in sources`: get_source, then the
   retry-wrapped search call is issued.  The limiter decorator around it is
   taken to pass the call through, as test_fetcher_search_with_cache
   expects. *)
CallSourceAt(i) ==
    /\ pc = "loop"
    /\ i = idx
    /\ idx <= Len(srcs)
    /\ IF get_source(srcs[idx])
       THEN /\ wrapped' = [wrapped EXCEPT ![srcs[idx]] = @ + 1]
            /\ pc' = "call"
            /\ idx' = idx
       ELSE /\ wrapped' = wrapped
            /\ pc' = "loop"
            /\ idx' = idx + 1
    /\ attempt' = 0
    /\ w_calls' = 0
    /\ w_faults' = <<>>
    /\ waits' = <<>>
    /\ w_out' = NoOut
    /\ UNCHANGED <<now, cache, scenarioVars, sources, srcs, all_papers, contrib,
                   failed, invoked, hit, seen, started, cache_written, result, outcome>>
    /\ UNCHANGED <<details, fetchVars, dedupVars, cacheFaultVars, pureVars>>

CallSource == CallSourceAt(idx)

----------------------------------------------------------------------------
(* Fetcher._retry_on_transient: one pass of the while loop *)

InvokeReturns(r) ==
    /\ pc = "call"
    /\ attempt < MAX_RETRIES
    /\ r \in Responses(srcs[idx], limit)
    /\ w_calls' = w_calls + 1
    /\ invoked' = [invoked EXCEPT ![srcs[idx]] = @ + 1]
    /\ w_out' = [kind |-> "return", err |-> "none", value |-> r]
    /\ pc' = "collect"
    /\ UNCHANGED <<now, cache, scenarioVars, sources, srcs, idx, all_papers,
                   contrib, failed, wrapped, hit, seen, started, cache_written, result,
                   outcome, attempt, w_faults, waits>>
    /\ UNCHANGED <<details, fetchVars, dedupVars, cacheFaultVars, pureVars>>

InvokeRaises(e) ==
    /\ pc = "call"
    /\ attempt < MAX_RETRIES
    /\ e \in ErrorKinds
    /\ w_calls' = w_calls + 1
    /\ invoked' = [invoked EXCEPT ![srcs[idx]] = @ + 1]
    /\ w_faults' = Append(w_faults, e)
    /\ IF Retryable(e)
       THEN /\ attempt' = NextAttempt(attempt)
            /\ IF BudgetExhausted(NextAttempt(attempt))
               THEN /\ w_out' = [kind |-> "raise", err |-> e, value |-> <<>>]
                    /\ waits' = waits
                    /\ pc' = "collect"
               ELSE /\ w_out' = w_out
                    /\ waits' = Append(waits, WaitTime(NextAttempt(attempt)))
                    /\ pc' = "sleep"
       ELSE /\ attempt' = attempt
            /\ w_out' = [kind |-> "raise", err |-> e, value |-> <<>>]
            /\ waits' = waits
            /\ pc' = "collect"
    /\ UNCHANGED <<now, cache, scenarioVars, sources, srcs, idx, all_papers,
                   contrib, failed, wrapped, hit, seen, started, cache_written, result,
                   outcome>>
    /\ UNCHANGED <<details, fetchVars, dedupVars, cacheFaultVars, pureVars>>

(* asyncio.sleep(wait_time) is over: the while condition is tested again,
   and leaving the loop raises FetcherError("Max retries exceeded") *)
Wake ==
    /\ pc = "sleep"
    /\ IF attempt < MAX_RETRIES
       THEN pc' = "call" /\ w_out' = w_out
       ELSE /\ pc' = "collect"
            /\ w_out' = [kind |-> "raise", err |-> "FetcherError", value |-> <<>>]
    /\ UNCHANGED <<now, cache, scenarioVars, sources, srcs, idx, all_papers,
                   contrib, failed, wrapped, invoked, hit, seen, started, cache_written,
                   result, outcome, attempt, w_calls, w_faults, waits>>
    /\ UNCHANGED <<details, fetchVars, dedupVars, cacheFaultVars, pureVars>>

----------------------------------------------------------------------------
(* Fetcher.search, after the retry wrapper came back *)

Collect ==
    /\ pc = "collect"
    /\ IF w_out.kind = "return"
       THEN /\ all_papers' = all_papers \o w_out.value
            /\ contrib' = [contrib EXCEPT ![idx] = w_out.value]
            /\ failed' = failed
            /\ outcome' = outcome
            /\ pc' = "loop"
       ELSE IF SearchCatches(w_out.err)
       THEN /\ failed' = failed \cup {idx}
            /\ outcome' = outcome
            /\ pc' = "loop"
            /\ UNCHANGED <<all_papers, contrib>>
       ELSE /\ failed' = failed \cup {idx}
            /\ outcome' = "FetcherError"
            /\ pc' = "done"
            /\ UNCHANGED <<all_papers, contrib>>
    /\ details' = IF w_out.kind = "return" \/ SearchCatches(w_out.err)
                  THEN details
                  ELSE SearchFailedDetails(Query, srcs)
    /\ idx' = idx + 1
    /\ attempt' = 0
    /\ w_calls' = 0
    /\ w_faults' = <<>>
    /\ waits' = <<>>
    /\ w_out' = NoOut
    /\ UNCHANGED <<now, cache, scenarioVars, sources, srcs, wrapped, invoked,
                   hit, seen, started, cache_written, result>>
    /\ UNCHANGED <<fetchVars, dedupVars, cacheFaultVars, pureVars>>

(* the loop is over: sort, truncate, cache the result with the fixed TTL,
   return it *)
FinishAt(wr) ==
    /\ pc = "loop"
    /\ idx > Len(srcs)
    /\ wr \in CacheFaults
    /\ result' = Aggregate(all_papers, limit)
    /\ cache' = IF wr = "none"
                THEN _cache_set(CacheKey(Query, sources, limit), result', TTL)
                ELSE cache
    /\ cache_written' = (wr = "none")
    /\ c_write' = wr
    /\ IF wr # "none" /\ ~CacheSetCatches(wr)
       THEN /\ outcome' = "FetcherError"
            /\ details' = SearchFailedDetails(Query, srcs)
       ELSE /\ outcome' = "ok"
            /\ details' = details
    /\ pc' = "done"
    /\ UNCHANGED <<now, scenarioVars, sources, srcs, idx, all_papers, contrib,
                   failed, wrapped, invoked, hit, seen, started, wrapperVars>>
    /\ UNCHANGED <<c_read, fetchVars, dedupVars, pureVars>>

(* the end of a search whose cache write goes through *)
Finish == FinishAt("none")

----------------------------------------------------------------------------
(* Passage of time *)

TickSteps == {TTL \div 2 - 1, TTL \div 2}

Tick(dt) ==
    /\ now + dt <= MaxTime
    /\ now' = now + dt
    /\ UNCHANGED <<cache, scenarioVars, pc, sources, srcs, idx, all_papers,
                   contrib, failed, wrapped, invoked, hit, seen, started, cache_written,
                   result, outcome, wrapperVars>>
    /\ UNCHANGED <<details, fetchVars, dedupVars, cacheFaultVars, pureVars>>

----------------------------------------------------------------------------

Next ==
    \/ \E src \in SourceOpts : StartSearch(src)
    \/ CallSource
    \/ \E r \in SubSeqs(Catalog("arxiv")) \cup SubSeqs(Catalog("crossref"))
                \cup SubSeqs(Catalog("semanticscholar")) : InvokeReturns(r)
    \/ \E e \in ErrorKinds : InvokeRaises(e)
    \/ Wake
    \/ Collect
    \/ Finish
    \/ \E dt \in TickSteps : Tick(dt)

Spec == Init /\ [][Next]_vars

----------------------------------------------------------------------------
(* Fetcher.fetch: identifiers and the prioritized source order *)

StartsWith(s, pre) == Len(s) >= Len(pre) /\ SubSeq(s, 1, Len(pre)) = pre

IsDigitStr(s) == s # <<>> /\ \A i \in 1..Len(s) : s[i] >= 48 /\ s[i] <= 57

Contains(s, c) == \E i \in 1..Len(s) : s[i] = c

S_PMID == <<80, 77, 73, 68, 58>>
S_arxiv_colon == <<97, 114, 120, 105, 118, 58>>
S_ten_dot == <<49, 48, 46>>

Id_domain == <<50, 52, 48, 49, 46, 49, 50, 51, 52, 53>>
Id_doi == <<49, 48, 46, 49, 48, 48, 48, 47, 120, 121, 122>>
Id_numeric == <<32, 52, 50, 32>>
Id_pmid == <<80, 77, 73, 68, 58, 55>>
Id_arxiv == <<97, 114, 88, 105, 118, 58, 49>>
Id_path == <<97, 47, 98>>
Id_word == <<97, 98, 99>>
Id_blank == <<32>>

Identifiers == {Id_domain, Id_doi, Id_numeric, Id_pmid, Id_arxiv, Id_path, Id_word,
                Id_blank, <<>>}

ExplicitSources == {"", "crossref", "nosuch"}

PrioritizedSeeds(identifier) ==
    LET normalized == Strip(identifier) IN
    IF StartsWith(normalized, S_PMID) \/ IsDigitStr(normalized)
    THEN <<"semanticscholar", "pubmed">>
    ELSE IF StartsWith(Lower(normalized), S_arxiv_colon)
    THEN <<"semanticscholar", "arxiv">>
    ELSE IF StartsWith(normalized, S_ten_dot) \/ Contains(normalized, 47)
    THEN <<"semanticscholar", "crossref">>
    ELSE IF normalized # <<>>
    THEN <<"semanticscholar">>
    ELSE <<>>

(* variant: the registered names are appended without the membership test *)
Prioritized_NoMembershipTest(identifier) ==
    PrioritizedSeeds(identifier) \o available_sources

Prioritized(identifier) ==
    LET seeds == PrioritizedSeeds(identifier) IN
    seeds \o SelectSeq(available_sources, LAMBDA n : n \notin Range(seeds))

(* what a provider's fetch returns: a record, or None *)
Absent == [some |-> FALSE, source |-> ""]

Record(name) == [some |-> TRUE, source |-> LowerName(name)]

(* variant: a returned record is never recognised *)
FetchTruthy_Never(v) == FALSE

(* `if result:` in the loop over prioritized *)
FetchTruthy(v) == v.some

(* `except Exception` around the explicit source *)
ExplicitCatches(e) == e \in ErrorKinds \cup {"FetcherError"}

(* variant: only SourceError is absorbed in the loop *)
FetchCatches_SourceErrorOnly(e) == e = "SourceError"

(* `except SourceError` / `except Exception` in the loop over prioritized *)
FetchCatches(e) == e = "SourceError" \/ e \in ErrorKinds \cup {"FetcherError"}

(* details={"identifier": identifier, "source": source} of the outer except *)
FetchFailedDetails(identifier, source) ==
    [has_query |-> TRUE, query |-> identifier, has_sources |-> TRUE,
     names |-> <<source>>]

OutKind(w) ==
    IF w.kind = "raise" THEN "failed"
    ELSE IF w.value.some THEN "record" ELSE "absent"

searchVars == <<now, cache, scenarioVars, pc, sources, srcs, idx, all_papers,
                contrib, failed, wrapped, invoked, hit, seen, started,
                cache_written, result, outcome>>

----------------------------------------------------------------------------
(* Fetcher.fetch *)

StartFetch(identifier, source) ==
    /\ f_pc \in {"idle", "done"}
    /\ f_ident' = identifier
    /\ f_source' = source
    /\ f_outs' = <<>>
    /\ f_result' = Absent
    /\ f_outcome' = "none"
    /\ IF source # "" /\ get_source(source)
       THEN /\ f_pos' = 0
            /\ f_chain' = <<>>
            /\ f_attempts' = <<source>>
            /\ f_pc' = "call"
       ELSE /\ f_pos' = 1
            /\ f_chain' = Prioritized(identifier)
            /\ f_attempts' = <<>>
            /\ f_pc' = "loop"
    /\ attempt' = 0
    /\ w_calls' = 0
    /\ w_faults' = <<>>
    /\ waits' = <<>>
    /\ w_out' = NoOut
    /\ details' = NoDetails
    /\ UNCHANGED <<searchVars, dedupVars, cacheFaultVars, pureVars>>

(* one iteration of `for source_name in prioritized` up to the wrapped call *)
FetchCallSource ==
    /\ f_pc = "loop"
    /\ f_pos <= Len(f_chain)
    /\ IF get_source(f_chain[f_pos])
       THEN /\ f_attempts' = Append(f_attempts, f_chain[f_pos])
            /\ f_pc' = "call"
            /\ f_pos' = f_pos
       ELSE /\ f_attempts' = f_attempts
            /\ f_pc' = "loop"
            /\ f_pos' = f_pos + 1
    /\ attempt' = 0
    /\ w_calls' = 0
    /\ w_faults' = <<>>
    /\ waits' = <<>>
    /\ w_out' = NoOut
    /\ UNCHANGED <<f_ident, f_source, f_chain, f_outs, f_result, f_outcome>>
    /\ UNCHANGED <<details, searchVars, dedupVars, cacheFaultVars, pureVars>>

(* _retry_on_transient around source_instance.fetch: func returns *)
FetchInvokeReturns(v) ==
    /\ f_pc = "call"
    /\ attempt < MAX_RETRIES
    /\ v \in {Absent, Record(f_attempts[Len(f_attempts)])}
    /\ w_calls' = w_calls + 1
    /\ w_out' = [kind |-> "return", err |-> "none", value |-> v]
    /\ f_pc' = "collect"
    /\ UNCHANGED <<attempt, w_faults, waits>>
    /\ UNCHANGED <<f_ident, f_source, f_chain, f_pos, f_attempts, f_outs,
                   f_result, f_outcome>>
    /\ UNCHANGED <<details, searchVars, dedupVars, cacheFaultVars, pureVars>>

(* _retry_on_transient around source_instance.fetch: func raises *)
FetchInvokeRaises(e) ==
    /\ f_pc = "call"
    /\ attempt < MAX_RETRIES
    /\ e \in ErrorKinds
    /\ w_calls' = w_calls + 1
    /\ w_faults' = Append(w_faults, e)
    /\ IF Retryable(e)
       THEN /\ attempt' = NextAttempt(attempt)
            /\ IF BudgetExhausted(NextAttempt(attempt))
               THEN /\ w_out' = [kind |-> "raise", err |-> e, value |-> Absent]
                    /\ waits' = waits
                    /\ f_pc' = "collect"
               ELSE /\ w_out' = w_out
                    /\ waits' = Append(waits, WaitTime(NextAttempt(attempt)))
                    /\ f_pc' = "sleep"
       ELSE /\ attempt' = attempt
            /\ w_out' = [kind |-> "raise", err |-> e, value |-> Absent]
            /\ waits' = waits
            /\ f_pc' = "collect"
    /\ UNCHANGED <<f_ident, f_source, f_chain, f_pos, f_attempts, f_outs,
                   f_result, f_outcome>>
    /\ UNCHANGED <<details, searchVars, dedupVars, cacheFaultVars, pureVars>>

FetchWake ==
    /\ f_pc = "sleep"
    /\ IF attempt < MAX_RETRIES
       THEN f_pc' = "call" /\ w_out' = w_out
       ELSE /\ f_pc' = "collect"
            /\ w_out' = [kind |-> "raise", err |-> "FetcherError", value |-> Absent]
    /\ UNCHANGED <<attempt, w_calls, w_faults, waits>>
    /\ UNCHANGED <<f_ident, f_source, f_chain, f_pos, f_attempts, f_outs,
                   f_result, f_outcome>>
    /\ UNCHANGED <<details, searchVars, dedupVars, cacheFaultVars, pureVars>>

(* the wrapper came back to fetch: `return await ...` for the explicit
   source, `if result: return result` in the loop, or an except branch *)
FetchCollect ==
    /\ f_pc = "collect"
    /\ f_outs' = Append(f_outs, OutKind(w_out))
    /\ IF f_pos = 0
       THEN IF w_out.kind = "return"
            THEN /\ f_result' = w_out.value
                 /\ f_outcome' = IF w_out.value.some THEN "record" ELSE "absent"
                 /\ f_pc' = "done"
                 /\ details' = details
                 /\ UNCHANGED <<f_chain, f_pos>>
            ELSE IF ExplicitCatches(w_out.err)
            THEN /\ f_chain' = Prioritized(f_ident)
                 /\ f_pos' = 1
                 /\ f_pc' = "loop"
                 /\ details' = details
                 /\ UNCHANGED <<f_result, f_outcome>>
            ELSE /\ f_outcome' = "FetcherError"
                 /\ details' = FetchFailedDetails(f_ident, f_source)
                 /\ f_pc' = "done"
                 /\ UNCHANGED <<f_chain, f_pos, f_result>>
       ELSE IF w_out.kind = "return" /\ FetchTruthy(w_out.value)
            THEN /\ f_result' = w_out.value
                 /\ f_outcome' = "record"
                 /\ f_pc' = "done"
                 /\ details' = details
                 /\ UNCHANGED <<f_chain, f_pos>>
            ELSE IF w_out.kind = "return" \/ FetchCatches(w_out.err)
            THEN /\ f_pos' = f_pos + 1
                 /\ f_pc' = "loop"
                 /\ details' = details
                 /\ UNCHANGED <<f_chain, f_result, f_outcome>>
            ELSE /\ f_outcome' = "FetcherError"
                 /\ details' = FetchFailedDetails(f_ident, f_source)
                 /\ f_pc' = "done"
                 /\ UNCHANGED <<f_chain, f_pos, f_result>>
    /\ attempt' = 0
    /\ w_calls' = 0
    /\ w_faults' = <<>>
    /\ waits' = <<>>
    /\ w_out' = NoOut
    /\ UNCHANGED <<f_ident, f_source, f_attempts>>
    /\ UNCHANGED <<searchVars, dedupVars, cacheFaultVars, pureVars>>

(* the loop over prioritized is over: return None *)
FetchNotFound ==
    /\ f_pc = "loop"
    /\ f_pos > Len(f_chain)
    /\ f_result' = Absent
    /\ f_outcome' = "absent"
    /\ f_pc' = "done"
    /\ UNCHANGED <<f_ident, f_source, f_chain, f_pos, f_attempts, f_outs>>
    /\ UNCHANGED <<details, wrapperVars, searchVars, dedupVars, cacheFaultVars, pureVars>>

InitFetch ==
    /\ limit = 0
    /\ skey = SourcesKey(NoSources)
    /\ SearchIdle
    /\ WrapperIdle
    /\ FetchIdle
    /\ DedupIdle
    /\ CacheFaultIdle
    /\ PureIdle

NextFetch ==
    \/ \E identifier \in Identifiers, source \in ExplicitSources :
          StartFetch(identifier, source)
    \/ FetchCallSource
    \/ \E v \in {Absent} \cup {Record(n) : n \in Names} : FetchInvokeReturns(v)
    \/ \E e \in ErrorKinds : FetchInvokeRaises(e)
    \/ FetchWake
    \/ FetchCollect
    \/ FetchNotFound

SpecFetch == InitFetch /\ [][NextFetch]_vars

----------------------------------------------------------------------------
(* AdvancedSearchEngine._deduplicate_results *)

MaxDedupLen == 3

Repeat(c, n) == [i \in 1..n |-> c]

S_sp_a == <<32, 97>>
S_Z == <<90>>
S_a_bar_lee == <<97, 124, 108, 101, 101>>
S_Kim == <<75, 105, 109>>
S_Lee_Kim == <<76, 101, 101, 32, 75, 105, 109>>
S_long_x == Repeat(97, 50) \o <<120>>
S_long_y == Repeat(97, 50) \o <<121>>

DedupRecord(doi, title, authors) ==
    [source |-> "arxiv", doi |-> doi, title |-> title, authors |-> authors,
     date |-> S_empty]

DedupRecords ==
    { DedupRecord(S_doi_uc, S_B, <<S_auth>>),
      DedupRecord(S_doi_lc, S_A, <<S_auth>>),
      DedupRecord(S_empty, S_sp_a, <<S_auth>>),
      DedupRecord(S_empty, S_A, <<S_auth>>),
      DedupRecord(S_a_bar_lee, S_Z, <<>>),
      DedupRecord(S_empty, S_long_x, <<S_auth, S_Kim>>),
      DedupRecord(S_empty, S_long_y, <<S_Lee_Kim>>),
      DedupRecord(S_empty, S_empty, <<>>) }

DedupLists == UNION {[1..n -> DedupRecords] : n \in 0..MaxDedupLen}

(* seen.add(identifier) *)
SeenAdd(seenIds, identifier) == seenIds \cup {identifier}

(* variant: a kept record is put in front of the list *)
Keep_Prepend(unique_results, r) == <<r>> \o unique_results

(* unique_results.append(result) *)
Keep(unique_results, r) == Append(unique_results, r)

(* the `for result in results` loop from position i on *)
RECURSIVE DedupFrom(_, _, _, _)
DedupFrom(results, i, seenIds, unique_results) ==
    IF i > Len(results) THEN unique_results
    ELSE LET identifier == DedupKey(results[i]) IN
         IF identifier \notin seenIds
         THEN DedupFrom(results, i + 1, SeenAdd(seenIds, identifier),
                        Keep(unique_results, results[i]))
         ELSE DedupFrom(results, i + 1, seenIds, unique_results)

_deduplicate_results(results) == DedupFrom(results, 1, {}, <<>>)

(* one call of _deduplicate_results on a merged list *)
DedupRun ==
    /\ d_pc = "in"
    /\ d_out' = _deduplicate_results(d_in)
    /\ d_pc' = "out"
    /\ UNCHANGED <<d_in, d_out2>>
    /\ UNCHANGED <<details, wrapperVars, searchVars, fetchVars, cacheFaultVars,
                   pureVars>>

(* a second call, on the list the first call returned *)
DedupAgain ==
    /\ d_pc = "out"
    /\ d_out2' = _deduplicate_results(d_out)
    /\ d_pc' = "again"
    /\ UNCHANGED <<d_in, d_out>>
    /\ UNCHANGED <<details, wrapperVars, searchVars, fetchVars, cacheFaultVars,
                   pureVars>>

InitDedup ==
    /\ limit = 0
    /\ skey = SourcesKey(NoSources)
    /\ SearchIdle
    /\ WrapperIdle
    /\ FetchIdle
    /\ CacheFaultIdle
    /\ PureIdle
    /\ d_pc = "in"
    /\ d_in \in DedupLists
    /\ d_out = <<>>
    /\ d_out2 = <<>>

NextDedup ==
    \/ DedupRun
    \/ DedupAgain

SpecDedup == InitDedup /\ [][NextDedup]_vars

----------------------------------------------------------------------------
(* Properties of Fetcher.search and Fetcher._retry_on_transient *)

TransientFaults == {"NetworkError", "RateLimitError"}

Registered(n) == n \in Range(available_sources)

Succeeded == (1..Len(srcs)) \ failed

Count(x, s) == Cardinality({i \in 1..Len(s) : s[i] = x})

(* p comes before q in the order (date descending, title descending) *)
Precedes(p, q) ==
    StrLess(q.date, p.date) \/ (p.date = q.date /\ StrLess(q.title, p.title))

(* C1: a search in which a provider failed performs no cache write, so the
   cache never receives a partial-failure (or all-failed, empty) result *)
C1_NoPartialFailureCached == cache_written => failed = {}

(* C2: with at least one valid source, whatever subset of the providers
   fails, the search does not raise and returns only records that the
   providers which succeeded returned *)
C2_PartialFailureResilience ==
    (~hit /\ srcs # <<>>) =>
        /\ outcome # "FetcherError"
        /\ \A j \in failed : contrib[j] = <<>>
        /\ pc = "done" =>
             /\ outcome = "ok"
             /\ \A i \in 1..Len(result) :
                  \E j \in Succeeded : result[i] \in Range(contrib[j])
             /\ \A i \in 1..Len(result) :
                  Count(result[i], result) <= Count(result[i], all_papers)

C2_Witness ==
    /\ pc = "done" /\ ~hit /\ outcome = "ok"
    /\ failed # {} /\ Succeeded # {}
    /\ result # <<>>

(* C3: a call that raises a transient fault on every invocation is invoked
   exactly MAX_RETRIES times, with waits 2^1 .. 2^(MAX_RETRIES-1) after the
   failed attempts but the last, and the last fault is raised to the caller *)
C3_RetryBound ==
    /\ w_calls <= MAX_RETRIES
    /\ (/\ pc = "collect"
        /\ Len(w_faults) = w_calls
        /\ \A i \in 1..Len(w_faults) : w_faults[i] \in TransientFaults)
       => /\ w_calls = MAX_RETRIES
          /\ waits = [k \in 1..(MAX_RETRIES - 1) |-> 2^k]
          /\ \A k \in 1..(Len(waits) - 1) : waits[k] < waits[k + 1]
          /\ w_out.kind = "raise"
          /\ w_out.err = w_faults[Len(w_faults)]

C3_Witness ==
    /\ pc = "collect"
    /\ w_calls = MAX_RETRIES
    /\ Len(w_faults) = MAX_RETRIES
    /\ \A i \in 1..Len(w_faults) : w_faults[i] \in TransientFaults
    /\ w_out.kind = "raise"

(* C4: a permanent fault ends the wrapper call at once: no invocation and no
   wait follows it, and the error raised to the caller is that same fault,
   also when transient faults came before it *)
C4_PermanentNotRetried ==
    \A i \in 1..Len(w_faults) :
        w_faults[i] \notin TransientFaults =>
            /\ i = Len(w_faults)
            /\ pc = "collect"
            /\ w_calls = i
            /\ Len(waits) = i - 1
            /\ w_out.kind = "raise"
            /\ w_out.err = w_faults[i]

C4_Witness ==
    /\ pc = "collect"
    /\ Len(w_faults) = 2
    /\ w_faults[1] \in TransientFaults
    /\ w_faults[2] = "AgentError"
    /\ w_out.err = "AgentError"

(* C5: a search that finds an unexpired entry under its key returns the
   entry's value, whatever its length, calls no provider and writes
   nothing *)
C5_CacheHitServed ==
    (seen.present /\ started < seen.expires_at) =>
        /\ pc = "done"
        /\ hit
        /\ result = JsonLoads(seen.raw)
        /\ \A n \in Names : invoked[n] = 0 /\ wrapped[n] = 0
        /\ ~cache_written

(* C6: an entry is served verbatim by every search on its key before its
   expiry (write time + TTL), and by none at or after it, which is a miss
   that goes to the providers *)
C6_CacheTTL ==
    seen.present =>
        IF started < seen.expires_at
        THEN hit /\ result = JsonLoads(seen.raw)
        ELSE ~hit /\ (pc = "done" /\ srcs # <<>> => \E n \in Names : wrapped[n] > 0)

(* C7: no two records of a returned list have the same dedup key *)
C7_ResultUniquePerDedupKey ==
    (pc = "done" /\ outcome = "ok") =>
        \A i, j \in 1..Len(result) :
            i # j => DedupKey(result[i]) # DedupKey(result[j])

(* C8: a returned list, computed or served from the cache, has at most
   limit records *)
C8_LengthAtMostLimit == (pc = "done" /\ outcome = "ok") => Len(result) <= limit

C8_Witness ==
    /\ pc = "done" /\ ~hit /\ outcome = "ok"
    /\ limit > 0
    /\ Len(all_papers) > limit
    /\ Len(result) = limit

(* C9: on a miss the returned list is in (date desc, title desc) order and
   is the head of the whole merged set in that order: no record left out
   precedes a returned one *)
C9_SortedThenTruncated ==
    (pc = "done" /\ ~hit /\ outcome = "ok") =>
        /\ \A i, j \in 1..Len(result) : i < j => ~Precedes(result[j], result[i])
        /\ Len(result) = IF Len(all_papers) < limit THEN Len(all_papers) ELSE limit
        /\ \A x \in Range(result) : Count(x, result) <= Count(x, all_papers)
        /\ \A x \in Range(all_papers) :
             Count(x, result) < Count(x, all_papers) =>
                 \A i \in 1..Len(result) : ~Precedes(x, result[i])

C9_Witness ==
    /\ pc = "done" /\ ~hit /\ outcome = "ok"
    /\ Len(all_papers) > limit
    /\ result # <<>>
    /\ result # SubSeq(all_papers, 1, Len(result))

(* C10: on a miss, unregistered names are dropped and never called; every
   registered name requested gets one retry-wrapped call per occurrence in
   the request (the default provider alone when sources is unspecified);
   FetcherError is raised exactly when no registered name remains *)
C10_SourceValidation ==
    LET req == IF sources.given THEN sources.names ELSE <<"semanticscholar">>
    IN /\ \A n \in Names : ~Registered(n) => invoked[n] = 0 /\ wrapped[n] = 0
       /\ \A n \in Names : wrapped[n] <= Count(n, req)
       /\ (pc = "done" /\ ~hit) =>
            /\ outcome = "FetcherError" <=> \A i \in 1..Len(req) : ~Registered(req[i])
            /\ outcome = "ok" =>
                 \A n \in Names : Registered(n) => wrapped[n] = Count(n, req)

C10_Witness ==
    /\ pc = "done" /\ ~hit /\ outcome = "ok"
    /\ sources = Given(<<"ArXiv", "crossref">>)
    /\ wrapped["crossref"] = 1
    /\ invoked["crossref"] >= 1

(* C11: every FetcherError raised by search (and by fetch) carries, in its
   details, the query (or identifier) and the sources attempted *)
C11_FaultCarriesContext ==
    outcome = "FetcherError" =>
        /\ details.has_query /\ details.query = Query
        /\ details.has_sources

(* C18: while the retry wrapper of one source sleeps between attempts, the
   retry-wrapped call of the next source of the same search can be issued *)
C18_SiblingNotDelayed ==
    (pc = "sleep" /\ idx < Len(srcs) /\ srcs[idx + 1] # srcs[idx])
        => ENABLED CallSourceAt(idx + 1)

----------------------------------------------------------------------------
(* Properties of Fetcher.fetch *)

AttemptedNames == {LowerName(f_attempts[i]) : i \in 1..Len(f_attempts)}

ChainBuilt == f_pos >= 1

(* C12: fetch returns absent only after every registered provider was
   attempted and each attempt ended absent or failed; in particular an
   explicit source that gives no record does not end the fetch *)
C12_AbsentOnlyAfterWholeChain ==
    f_outcome = "absent" =>
        /\ \A n \in Range(available_sources) : n \in AttemptedNames
        /\ \A i \in 1..Len(f_outs) : f_outs[i] \in {"absent", "failed"}

(* C13: the attempts follow the planned order one at a time, each after the
   previous one ended absent or failed; the first record ends the fetch and
   is the value returned, and nothing later in the chain is called *)
C13_SequentialFirstRecordWins ==
    LET explicit == IF f_source # "" /\ get_source(f_source)
                    THEN <<f_source>> ELSE <<>>
        planned == explicit \o f_chain
        n == Len(f_attempts)
    IN /\ n <= Len(planned) \/ ~ChainBuilt
       /\ ChainBuilt => \A i \in 1..n : f_attempts[i] = planned[i]
       /\ Len(f_outs) \in {n - 1, n}
       /\ \A i \in 1..Len(f_outs) : i < n => f_outs[i] \in {"absent", "failed"}
       /\ \A i \in 1..Len(f_outs) :
            f_outs[i] = "record" =>
                /\ i = n
                /\ f_pc = "done"
                /\ f_outcome = "record"
                /\ f_result = [some |-> TRUE, source |-> LowerName(f_attempts[i])]
       /\ f_outcome = "record" => (n >= 1 /\ Len(f_outs) = n /\ f_outs[n] = "record")

C13_Witness ==
    /\ f_pc = "done"
    /\ f_outcome = "record"
    /\ f_source = ""
    /\ Len(f_attempts) = 3
    /\ Len(f_chain) = 5
    /\ f_outs = <<"failed", "absent", "record">>

GenericProviders == {"semanticscholar", "crossref", "pubmed", "xrxiv"}

(* C14: for "2401.12345" without an explicit source, arxiv is attempted
   before every generic provider *)
C14_DomainIdArxivFirst ==
    (f_ident = Id_domain /\ f_source = "") =>
        \A i \in 1..Len(f_attempts) :
            f_attempts[i] \in GenericProviders =>
                \E j \in 1..(i - 1) : f_attempts[j] = "arxiv"

(* C15: for "10.1000/xyz" without an explicit source, crossref is attempted
   before any other registered provider *)
C15_DoiCrossrefFirst ==
    (f_ident = Id_doi /\ f_source = "") =>
        \A i \in 1..Len(f_attempts) :
            f_attempts[i] \in {"arxiv", "pubmed", "semanticscholar", "xrxiv"} =>
                \E j \in 1..(i - 1) : f_attempts[j] = "crossref"

(* position of a name in the registration order *)
RegIndex(n) == CHOOSE i \in 1..Len(available_sources) : available_sources[i] = n

(* C16: the chain built for any identifier holds every registered provider
   exactly once: the seeded providers first, then the remaining registered
   providers in registration order *)
C16_ChainIsPermutation ==
    ChainBuilt =>
        LET k == Len(PrioritizedSeeds(f_ident)) IN
        /\ Len(f_chain) = Len(available_sources)
        /\ \A n \in Range(available_sources) : Count(n, f_chain) = 1
        /\ \A i \in 1..Len(f_chain) : f_chain[i] \in Range(available_sources)
        /\ k <= Len(f_chain)
        /\ SubSeq(f_chain, 1, k) = PrioritizedSeeds(f_ident)
        /\ \A i, j \in (k + 1)..Len(f_chain) :
             i < j => RegIndex(f_chain[i]) < RegIndex(f_chain[j])

C16_Witness ==
    /\ ChainBuilt
    /\ f_ident = Id_pmid
    /\ f_chain = <<"semanticscholar", "pubmed", "arxiv", "crossref", "xrxiv">>

(* C17: provider faults never make fetch raise; when no provider returns a
   record, whatever mix of absent, permanent faults and exhausted transient
   faults occurs, fetch returns absent *)
C17_FetchAbsorbsFaults ==
    /\ f_outcome # "FetcherError"
    /\ (f_pc = "done" /\ \A i \in 1..Len(f_outs) : f_outs[i] # "record")
         => (f_outcome = "absent" /\ f_result = Absent)

C17_Witness ==
    /\ f_pc = "done"
    /\ f_outcome = "absent"
    /\ f_source = "crossref"
    /\ Len(f_outs) = 6
    /\ f_outs[1] = "failed"
    /\ \E i \in 2..6 : f_outs[i] = "absent"
    /\ \E i \in 2..6 : f_outs[i] = "failed"

----------------------------------------------------------------------------
(* Properties of AdvancedSearchEngine._deduplicate_results *)

(* out is the subsequence of inp made of the records at the positions in at *)
IsSubsequenceAt(out, inp, at) ==
    /\ Len(out) = Cardinality(at)
    /\ \E f \in [1..Len(out) -> 1..Len(inp)] :
         /\ \A i, j \in 1..Len(out) : i < j => f[i] < f[j]
         /\ {f[i] : i \in 1..Len(out)} = at
         /\ \A i \in 1..Len(out) : out[i] = inp[f[i]]

(* key of the statement as written: a DOI key, or the pair of the truncated
   lower-cased title and the truncated lower-cased joined authors *)
PairKey(p) ==
    LET doi == Lower(Strip(p.doi)) IN
    IF doi # <<>> THEN <<"doi", doi>>
    ELSE <<"pair", Take(Lower(p.title), 50), Take(Lower(JoinSp(p.authors)), 30)>>

(* key of the amended statement: one string *)
CompositeKey(p) ==
    LET doi == Lower(Strip(p.doi)) IN
    IF doi # <<>> THEN doi
    ELSE Take(Lower(Strip(p.title)), 50) \o <<124>>
            \o Take(Lower(Strip(JoinSp(p.authors))), 30)

(* C19 as stated: the output is the subsequence of the first record of each
   key, the key being the trimmed lower-cased DOI or else the pair (first 50
   characters of the lower-cased title, first 30 characters of the
   lower-cased space-joined authors) *)
C19_FirstPerPairKey ==
    d_pc \in {"out", "again"} =>
        IsSubsequenceAt(d_out, d_in,
            {i \in 1..Len(d_in) :
                \A j \in 1..(i - 1) : PairKey(d_in[j]) # PairKey(d_in[i])})

(* C19 amended: the key is the trimmed lower-cased DOI when non-empty, else
   the single string made of the first 50 characters of the trimmed
   lower-cased title, "|", and the first 30 characters of the trimmed
   lower-cased space-joined authors; the output is the subsequence of the
   first record of each key, in input order, with no key twice *)
C19_FirstPerCompositeKey ==
    d_pc \in {"out", "again"} =>
        /\ IsSubsequenceAt(d_out, d_in,
              {i \in 1..Len(d_in) :
                  \A j \in 1..(i - 1) :
                      CompositeKey(d_in[j]) # CompositeKey(d_in[i])})
        /\ \A i, j \in 1..Len(d_out) :
              i # j => CompositeKey(d_out[i]) # CompositeKey(d_out[j])

C19_Witness ==
    /\ d_pc = "out"
    /\ d_in = <<DedupRecord(S_empty, S_sp_a, <<S_auth>>),
                DedupRecord(S_doi_uc, S_B, <<S_auth>>),
                DedupRecord(S_empty, S_A, <<S_auth>>)>>
    /\ d_out = <<d_in[1], d_in[2]>>

(* C20: deduplicating a deduplicated list changes nothing *)
C20_DedupIdempotent ==
    d_pc = "again" => d_out2 = d_out

C20_Witness ==
    /\ d_pc = "again"
    /\ Len(d_in) = MaxDedupLen
    /\ Len(d_out) = 2
    /\ d_out2 = d_out

----------------------------------------------------------------------------
(* Attempts of one Fetcher.fetch call *)

(* C28: within one fetch no provider gets more than one retry-wrapped
   attempt; an explicit source attempted first is not attempted again by the
   chain *)
C28_OneAttemptPerProvider ==
    \A n \in Range(available_sources) :
        Cardinality({i \in 1..Len(f_attempts) : LowerName(f_attempts[i]) = n}) <= 1

----------------------------------------------------------------------------
(* Termination of Fetcher.search *)

(* every provider call comes back, and the event loop resumes a coroutine
   that can run *)
SearchFairness ==
    /\ WF_vars(CallSource)
    /\ WF_vars((\E r \in SubSeqs(Catalog("arxiv")) \cup SubSeqs(Catalog("crossref"))
                   \cup SubSeqs(Catalog("semanticscholar")) : InvokeReturns(r))
               \/ (\E e \in ErrorKinds : InvokeRaises(e)))
    /\ WF_vars(Wake)
    /\ WF_vars(Collect)
    /\ WF_vars(Finish)

(* searches with limit 1, at one instant: time plays no part in termination *)
InitLive == Init /\ limit = 1

NextLive ==
    \/ \E src \in SourceOpts : StartSearch(src)
    \/ CallSource
    \/ \E r \in SubSeqs(Catalog("arxiv")) \cup SubSeqs(Catalog("crossref"))
                \cup SubSeqs(Catalog("semanticscholar")) : InvokeReturns(r)
    \/ \E e \in ErrorKinds : InvokeRaises(e)
    \/ Wake
    \/ Collect
    \/ Finish

SpecLive == InitLive /\ [][NextLive]_vars /\ SearchFairness

SearchRunning == pc \in {"loop", "call", "sleep", "collect"}

(* number of entries of the validated source list that name n *)
Occurrences(n) == Cardinality({i \in 1..Len(srcs) : srcs[i] = n})

(* C29 as stated: every search returns or raises, after at most max_retries
   invocations of each valid source and none of any other provider *)
C29_TerminatesWithinBudget ==
    /\ [](\A n \in Names :
            invoked[n] <= (IF Registered(n) THEN MAX_RETRIES ELSE 0))
    /\ (SearchRunning ~> pc = "done")

(* C29 amended: every search returns or raises, after at most max_retries
   invocations for each occurrence of a valid source in the requested list
   and none of any provider that is not in it *)
C29_TerminatesWithinBudgetPerEntry ==
    /\ [](\A n \in Names : invoked[n] <= MAX_RETRIES * Occurrences(n))
    /\ (SearchRunning ~> pc = "done")

C29_Witness ==
    /\ pc = "done"
    /\ outcome = "ok"
    /\ srcs = <<"arxiv", "arxiv">>
    /\ invoked["arxiv"] = 2 * MAX_RETRIES
    /\ invoked["crossref"] = 0

----------------------------------------------------------------------------
(* Fetcher.search over a cache backend that can fail *)

NextCacheFault ==
    \/ \E src \in SourceOpts, rd \in CacheFaults : StartSearchAt(src, rd)
    \/ CallSource
    \/ \E r \in SubSeqs(Catalog("arxiv")) \cup SubSeqs(Catalog("crossref"))
                \cup SubSeqs(Catalog("semanticscholar")) : InvokeReturns(r)
    \/ \E e \in ErrorKinds : InvokeRaises(e)
    \/ Wake
    \/ Collect
    \/ \E wr \in CacheFaults : FinishAt(wr)

SpecCacheFault == Init /\ [][NextCacheFault]_vars

RECURSIVE Concat(_)
Concat(ss) == IF ss = <<>> THEN <<>> ELSE Head(ss) \o Concat(Tail(ss))

(* C30: a search whose cache read or cache write raised ends as a search
   without any cache would: a failed read is a miss, and the list returned is
   the aggregate of what the providers returned; the backend's fault never
   reaches the caller (only the error of a request without valid sources,
   which is raised with or without a cache) *)
C30_CacheFaultHarmless ==
    (pc = "done" /\ (c_read # "none" \/ c_write # "none")) =>
        /\ ~hit
        /\ IF ValidSources(DefaultSources(sources)) = <<>>
           THEN outcome = "FetcherError" /\ details = NoDetails
           ELSE /\ outcome = "ok"
                /\ result = Aggregate(Concat(contrib), limit)

C30_Witness ==
    /\ pc = "done"
    /\ c_read # "none"
    /\ c_write # "none"
    /\ seen.present
    /\ JsonLoads(seen.raw) # <<>>
    /\ outcome = "ok"
    /\ result # <<>>
    /\ result # JsonLoads(seen.raw)

----------------------------------------------------------------------------
(* AdvancedSearchEngine._rank_results *)

MaxRankLen == 3

CURRENT_YEAR == 2024

S_2020 == <<50, 48, 50, 48>>
S_2023_01 == <<50, 48, 50, 51, 45, 48, 49>>
S_sp_2025_sp == <<32, 50, 48, 50, 53, 32>>
S_a_sp_b == <<97, 32, 32, 98>>
S_a == <<97>>

(* a field of a result dict: absent (or None), or set to a value *)
Unset == [has |-> FALSE, val |-> <<>>]
UnsetCount == [has |-> FALSE, val |-> 0]
Set(v) == [has |-> TRUE, val |-> v]

RankPaper(title, abstract, authors, date, citation_count) ==
    [title |-> title, abstract |-> abstract, authors |-> authors, date |-> date,
     citation_count |-> citation_count]

Paper_A == RankPaper(S_A, S_empty, <<>>, Set(S_2020), Set(0))
Paper_B == RankPaper(S_B, S_empty, <<>>, Set(S_2023), Set(100))

RankPapers ==
    { Paper_A, Paper_B,
      RankPaper(S_A, S_empty, <<>>, Unset, UnsetCount),
      RankPaper(S_B, S_a, <<>>, Set(S_2023_01), Set(4)),
      RankPaper(S_empty, S_empty, <<S_A>>, Set(S_sp_2025_sp), Set(625)) }

RankLists == UNION {[1..n -> RankPapers] : n \in 0..MaxRankLen}

Methods == {"relevance", "date", "citations", "other"}

RankQueries == {S_A, S_a_sp_b}

(* value of a string of decimal digits *)
RECURSIVE DigitsValue(_)
DigitsValue(s) ==
    IF s = <<>> THEN 0
    ELSE DigitsValue(SubSeq(s, 1, Len(s) - 1)) * 10 + (s[Len(s)] - 48)

(* int(text): surrounding white space and one sign are accepted; anything
   else raises ValueError *)
ParseInt(s) ==
    LET t == Strip(s)
        signed == t # <<>> /\ t[1] \in {43, 45}
        body == IF signed THEN Tail(t) ELSE t
        ok == IsDigitStr(body)
    IN [ok |-> ok,
        val |-> IF ~ok THEN 0
                ELSE IF signed /\ t[1] = 45 THEN 0 - DigitsValue(body)
                ELSE DigitsValue(body)]

(* sort_key of mode "date": int(date), 0 when date is absent or int raises *)
DateSortKey(r) ==
    IF r.date.has /\ ParseInt(r.date.val).ok THEN ParseInt(r.date.val).val ELSE 0

(* sort_key of mode "citations": citation_count or 0 *)
CitationSortKey(r) == IF r.citation_count.has THEN r.citation_count.val ELSE 0

(* str.split(): the maximal runs of non-space characters *)
RECURSIVE Split(_)
Split(s) ==
    LET t == LStrip(s) IN
    IF t = <<>> THEN {}
    ELSE LET k == CHOOSE k \in 1..Len(t) :
                    /\ \A i \in 1..k : ~IsSpace(t[i])
                    /\ (k = Len(t) \/ IsSpace(t[k + 1]))
         IN {SubSeq(t, 1, k)} \cup Split(SubSeq(t, k + 1, Len(t)))

(* `term in text` on strings *)
IsSubstring(term, text) ==
    \E i \in 1..(Len(text) - Len(term) + 1) :
        SubSeq(text, i, i + Len(term) - 1) = term

Matches(terms, text) == Cardinality({t \in terms : IsSubstring(t, text)})

(* citations ** 0.5, for the perfect squares the records carry *)
Sqrt(n) == CHOOSE r \in 0..n : r * r = n

Min(a, b) == IF a < b THEN a ELSE b
Max(a, b) == IF a > b THEN a ELSE b

(* variant: the citation term is left out *)
RelevanceScore_NoCitations(r, original_query) ==
    LET query_terms == Split(Lower(original_query)) IN
    2 * 10 * Matches(query_terms, Lower(r.title))

(* calculate_relevance_score, in half points (the score times 2) *)
RelevanceScore(r, original_query) ==
    LET query_terms == Split(Lower(original_query))
        title_matches == Matches(query_terms, Lower(r.title))
        abstract_matches == Matches(query_terms, Lower(r.abstract))
        author_matches == Matches(query_terms, Lower(JoinSp(r.authors)))
        citations == CitationSortKey(r)
        year == IF r.date.has THEN ParseInt(r.date.val)
                ELSE [ok |-> TRUE, val |-> 2000]
    IN 2 * (title_matches * 10 + abstract_matches * 5 + author_matches * 3)
       + (IF citations > 0 THEN 2 * Min(Sqrt(citations), 20) ELSE 0)
       + (IF year.ok THEN Max(0, 10 - (CURRENT_YEAR - year.val)) ELSE 0)

(* variant: the keys are taken in ascending order *)
RECURSIVE InsertByKey_Ascending(_, _)
InsertByKey_Ascending(sorted, x) ==
    IF sorted = <<>> THEN <<x>>
    ELSE IF sorted[1].key <= x.key
    THEN <<sorted[1]>> \o InsertByKey_Ascending(Tail(sorted), x)
    ELSE <<x>> \o sorted

(* one step of a stable descending sort: x goes behind every item whose key
   is not smaller *)
RECURSIVE InsertByKey(_, _)
InsertByKey(sorted, x) ==
    IF sorted = <<>> THEN <<x>>
    ELSE IF sorted[1].key >= x.key
    THEN <<sorted[1]>> \o InsertByKey(Tail(sorted), x)
    ELSE <<x>> \o sorted

(* sorted(items, key=..., reverse=True) *)
RECURSIVE SortByKeyDesc(_)
SortByKeyDesc(items) ==
    IF items = <<>> THEN <<>>
    ELSE InsertByKey(SortByKeyDesc(SubSeq(items, 1, Len(items) - 1)),
                     items[Len(items)])

_rank_results(results, method, original_query) ==
    LET key(r) == IF method = "date" THEN DateSortKey(r)
                  ELSE IF method = "citations" THEN CitationSortKey(r)
                  ELSE RelevanceScore(r, original_query)
        items == [i \in 1..Len(results) |-> [rec |-> results[i], key |-> key(results[i])]]
        sorted == SortByKeyDesc(items)
    IN [i \in 1..Len(sorted) |-> sorted[i].rec]

restVars == <<details, wrapperVars, searchVars, fetchVars, dedupVars, cacheFaultVars>>

(* one call of _rank_results *)
Rank ==
    /\ p_pc = "in"
    /\ p_out' = _rank_results(p_in.results, p_in.method, p_in.query)
    /\ p_pc' = "out"
    /\ UNCHANGED <<p_in, restVars>>

IdleButPure ==
    /\ limit = 0
    /\ skey = SourcesKey(NoSources)
    /\ SearchIdle
    /\ WrapperIdle
    /\ FetchIdle
    /\ DedupIdle
    /\ CacheFaultIdle

InitRank ==
    /\ IdleButPure
    /\ p_pc = "in"
    /\ p_in \in [results : RankLists, method : Methods, query : RankQueries]
    /\ p_out = <<>>

NextRank == Rank

SpecRank == InitRank /\ [][NextRank]_vars

----------------------------------------------------------------------------
(* Properties of AdvancedSearchEngine._rank_results *)

Ranked == p_pc = "out" /\ p_in.method \in Methods

SamePapers(out, inp) ==
    /\ Len(out) = Len(inp)
    /\ \A x \in Range(inp) \cup Range(out) : Count(x, out) = Count(x, inp)

(* numeric year of a paper, 0 when the date is missing or does not parse *)
YearOrZero(r) ==
    IF r.date.has /\ ParseInt(r.date.val).ok THEN ParseInt(r.date.val).val ELSE 0

CitationsOrZero(r) == IF r.citation_count.has THEN r.citation_count.val ELSE 0

(* C21: mode 'date' returns a permutation of the input in descending numeric
   year (missing or unparseable dates count as 0), mode 'citations' a
   permutation in descending citation_count (missing counts as 0); for
   A (2020, 0 citations) and B (2023, 100 citations) both yield [B, A] *)
C21_DateAndCitationOrder ==
    (Ranked /\ p_in.method \in {"date", "citations"}) =>
        /\ SamePapers(p_out, p_in.results)
        /\ p_in.method = "date" =>
              \A i, j \in 1..Len(p_out) :
                  i < j => YearOrZero(p_out[i]) >= YearOrZero(p_out[j])
        /\ p_in.method = "citations" =>
              \A i, j \in 1..Len(p_out) :
                  i < j => CitationsOrZero(p_out[i]) >= CitationsOrZero(p_out[j])
        /\ p_in.results \in {<<Paper_A, Paper_B>>, <<Paper_B, Paper_A>>} =>
              p_out = <<Paper_B, Paper_A>>

C21_Witness ==
    /\ Ranked
    /\ p_in.method = "date"
    /\ p_in.results = <<Paper_A, RankPaper(S_A, S_empty, <<>>, Unset, UnsetCount),
                        Paper_B>>
    /\ p_out = <<Paper_B, Paper_A, RankPaper(S_A, S_empty, <<>>, Unset, UnsetCount)>>

(* C22 as stated: in relevance mode for the query "A", the title-matching
   paper A comes out above B *)
C22_TitleMatchAboveCitations ==
    (Ranked /\ p_in.method = "relevance" /\ p_in.query = S_A
       /\ p_in.results \in {<<Paper_A, Paper_B>>, <<Paper_B, Paper_A>>})
        => p_out = <<Paper_A, Paper_B>>

(* C22 amended: in relevance mode for the query "A", paper B comes out above
   the title-matching paper A: A scores 13 (10 for the title, 3 for recency)
   and B scores 14.5 (10 for its citations, 4.5 for recency) *)
C22_CitationsOutweighTitleMatch ==
    (Ranked /\ p_in.method = "relevance" /\ p_in.query = S_A
       /\ p_in.results \in {<<Paper_A, Paper_B>>, <<Paper_B, Paper_A>>})
        => /\ p_out = <<Paper_B, Paper_A>>
           /\ RelevanceScore(Paper_A, p_in.query) = 2 * 13
           /\ RelevanceScore(Paper_B, p_in.query) = 29

C22_Witness ==
    /\ Ranked
    /\ p_in.method = "relevance"
    /\ p_in.query = S_A
    /\ p_in.results = <<Paper_A, Paper_B>>
    /\ p_out = <<Paper_B, Paper_A>>

----------------------------------------------------------------------------
(* AdvancedSearchEngine._apply_filters *)

MaxFilterLen == 2

FilterPapers ==
    RankPapers \cup {RankPaper(S_B, S_empty, <<>>, Set(S_empty), Set(0))}

FilterLists == UNION {[1..n -> FilterPapers] : n \in 0..MaxFilterLen}

(* start and end of a date_range: None, or a year *)
YearOpts == {UnsetCount, Set(0), Set(2021), Set(2024)}

DateRanges == {Unset} \cup {Set([start |-> s, end |-> e]) : s, e \in YearOpts}

MinCitations == {UnsetCount, Set(0), Set(1), Set(5), Set(101)}

(* variant: a record without a date is rejected *)
_matches_date_range_NoDateFails(date, start_year, end_year) ==
    date.has /\ date.val # <<>> /\ ParseInt(date.val).ok
      /\ ~(start_year.has /\ start_year.val # 0 /\ ParseInt(date.val).val < start_year.val)
      /\ ~(end_year.has /\ end_year.val # 0 /\ ParseInt(date.val).val > end_year.val)

(* date is r.get("date", ""); `if start_year and ...` skips None and 0 *)
_matches_date_range(date, start_year, end_year) ==
    IF ~date.has \/ date.val = <<>> THEN TRUE
    ELSE LET year == ParseInt(date.val) IN
         IF ~year.ok THEN TRUE
         ELSE IF start_year.has /\ start_year.val # 0 /\ year.val < start_year.val
         THEN FALSE
         ELSE IF end_year.has /\ end_year.val # 0 /\ year.val > end_year.val
         THEN FALSE
         ELSE TRUE

(* (r.get("citation_count", 0) or 0) >= min_citations *)
MeetsMinCitations(r, min_citations) == CitationSortKey(r) >= min_citations

_apply_filters(results, filters) ==
    LET by_date ==
            IF filters.date_range.has
            THEN SelectSeq(results,
                     LAMBDA r : _matches_date_range(r.date,
                                    filters.date_range.val.start,
                                    filters.date_range.val.end))
            ELSE results
    IN IF filters.min_citations.has
       THEN SelectSeq(by_date,
                LAMBDA r : MeetsMinCitations(r, filters.min_citations.val))
       ELSE by_date

(* one call of _apply_filters *)
ApplyFilters ==
    /\ p_pc = "in"
    /\ p_out' = _apply_filters(p_in.results, p_in.filters)
    /\ p_pc' = "out"
    /\ UNCHANGED <<p_in, restVars>>

InitFilter ==
    /\ IdleButPure
    /\ p_pc = "in"
    /\ p_in \in [results : FilterLists,
                 filters : [date_range : DateRanges, min_citations : MinCitations]]
    /\ p_out = <<>>

NextFilter == ApplyFilters

SpecFilter == InitFilter /\ [][NextFilter]_vars

----------------------------------------------------------------------------
(* Properties of AdvancedSearchEngine._apply_filters *)

NoDate(r) == ~r.date.has \/ r.date.val = <<>>

(* C23: under any date_range a paper with no date passes (it is dropped only
   if a min_citations filter rejects it); under min_citations > 0 a paper
   whose citation_count is missing counts as 0 and is excluded *)
C23_FilterInclusivity ==
    p_pc = "out" =>
        /\ p_in.filters.date_range.has =>
              \A r \in Range(p_in.results) :
                  (NoDate(r) /\ (p_in.filters.min_citations.has =>
                                    CitationsOrZero(r) >= p_in.filters.min_citations.val))
                      => Count(r, p_out) = Count(r, p_in.results)
        /\ (p_in.filters.min_citations.has /\ p_in.filters.min_citations.val > 0) =>
              \A r \in Range(p_in.results) :
                  ~r.citation_count.has => r \notin Range(p_out)

C23_Witness ==
    /\ p_pc = "out"
    /\ p_in.filters.date_range = Set([start |-> Set(2021), end |-> Set(2024)])
    /\ p_in.filters.min_citations = UnsetCount
    /\ p_in.results = <<Paper_A, RankPaper(S_A, S_empty, <<>>, Unset, UnsetCount)>>
    /\ p_out = <<RankPaper(S_A, S_empty, <<>>, Unset, UnsetCount)>>

C23_WitnessCitations ==
    /\ p_pc = "out"
    /\ p_in.filters.min_citations = Set(1)
    /\ p_in.results = <<Paper_B, RankPaper(S_A, S_empty, <<>>, Unset, UnsetCount)>>
    /\ p_out = <<Paper_B>>

----------------------------------------------------------------------------
(* AdvancedSearchEngine._expand_query *)

S_machine_learning ==
    <<109, 97, 99, 104, 105, 110, 101, 32, 108, 101, 97, 114, 110, 105,
      110, 103>>
S_ML == <<77, 76>>
S_artificial_intelligence ==
    <<97, 114, 116, 105, 102, 105, 99, 105, 97, 108, 32, 105, 110, 116,
      101, 108, 108, 105, 103, 101, 110, 99, 101>>
S_neural_networks ==
    <<110, 101, 117, 114, 97, 108, 32, 110, 101, 116, 119, 111, 114, 107,
      115>>
S_neural_network ==
    <<110, 101, 117, 114, 97, 108, 32, 110, 101, 116, 119, 111, 114, 107>>
S_deep_learning ==
    <<100, 101, 101, 112, 32, 108, 101, 97, 114, 110, 105, 110, 103>>
S_neural_net == <<110, 101, 117, 114, 97, 108, 32, 110, 101, 116>>
S_ANN == <<65, 78, 78>>
S_climate_change ==
    <<99, 108, 105, 109, 97, 116, 101, 32, 99, 104, 97, 110, 103, 101>>
S_global_warming ==
    <<103, 108, 111, 98, 97, 108, 32, 119, 97, 114, 109, 105, 110, 103>>
S_climate_crisis ==
    <<99, 108, 105, 109, 97, 116, 101, 32, 99, 114, 105, 115, 105, 115>>
S_sp_2024 == <<32, 50, 48, 50, 52>>
S_sp_2023 == <<32, 50, 48, 50, 51>>
Q_Machine_Learning ==
    <<77, 97, 99, 104, 105, 110, 101, 32, 76, 101, 97, 114, 110, 105, 110,
      103>>
Q_ml_nn ==
    <<109, 97, 99, 104, 105, 110, 101, 32, 108, 101, 97, 114, 110, 105,
      110, 103, 32, 110, 101, 117, 114, 97, 108, 32, 110, 101, 116, 119,
      111, 114, 107>>
Q_climate_2024 ==
    <<99, 108, 105, 109, 97, 116, 101, 32, 99, 104, 97, 110, 103, 101, 32,
      50, 48, 50, 52>>
Q_x == <<120>>

ExpandQueries ==
    {S_empty, Q_x, S_machine_learning, Q_Machine_Learning, S_neural_networks,
     Q_ml_nn, Q_climate_2024}

(* str.replace(old, new): every occurrence, left to right, without overlap *)
RECURSIVE Replace(_, _, _)
Replace(s, old, new) ==
    IF Len(s) < Len(old) THEN s
    ELSE IF SubSeq(s, 1, Len(old)) = old
    THEN new \o Replace(SubSeq(s, Len(old) + 1, Len(s)), old, new)
    ELSE <<s[1]>> \o Replace(Tail(s), old, new)

(* any(char.isdigit() for char in query) *)
HasDigit(s) == \E i \in 1..Len(s) : s[i] >= 48 /\ s[i] <= 57

(* the local list expansions *)
Expansions(query) ==
    (IF IsSubstring(S_machine_learning, Lower(query))
     THEN <<Replace(query, S_machine_learning, S_ML),
            Replace(query, S_machine_learning, S_artificial_intelligence),
            Replace(query, S_machine_learning, S_neural_networks)>>
     ELSE <<>>)
    \o (IF IsSubstring(S_neural_network, Lower(query))
        THEN <<Replace(query, S_neural_network, S_deep_learning),
               Replace(query, S_neural_network, S_neural_net),
               Replace(query, S_neural_network, S_ANN)>>
        ELSE <<>>)
    \o (IF IsSubstring(S_climate_change, Lower(query))
        THEN <<Replace(query, S_climate_change, S_global_warming),
               Replace(query, S_climate_change, S_climate_crisis)>>
        ELSE <<>>)
    \o (IF ~HasDigit(query)
        THEN <<query \o S_sp_2024, query \o S_sp_2023>>
        ELSE <<>>)

(* the set handed to list(): the query and the first 3 expansions *)
ExpandedSet(query, semantic_search) ==
    IF ~semantic_search THEN {query}
    ELSE Range(<<query>> \o Take(Expansions(query), 3))

(* the lists list(set(...)) can produce: the iteration order of a set of
   strings follows their hashes, which are salted per interpreter process *)
Orderings(S) ==
    {f \in [1..Cardinality(S) -> S] :
        \A i, j \in 1..Cardinality(S) : i # j => f[i] # f[j]}

(* one call of _expand_query; the second call is served by the same process
   or, after a restart, by another one *)
ExpandQuery ==
    /\ p_pc \in {"in", "out"}
    /\ \E order \in Orderings(ExpandedSet(p_in.query, p_in.semantic_search)) :
          /\ (p_pc = "out" /\ ~p_in.restarted) => order = p_out[1]
          /\ p_out' = Append(p_out, order)
    /\ p_pc' = IF p_pc = "in" THEN "out" ELSE "again"
    /\ UNCHANGED <<p_in, restVars>>

InitExpand ==
    /\ IdleButPure
    /\ p_pc = "in"
    /\ p_in \in [query : ExpandQueries, semantic_search : BOOLEAN,
                 restarted : BOOLEAN]
    /\ p_out = <<>>

NextExpand == ExpandQuery

SpecExpand == InitExpand /\ [][NextExpand]_vars

(* C26: without the semantic opt-in the result is exactly the query; with it,
   the query plus at most 3 variants; and two calls with the same query
   return the same list in the same order *)
C26_ExpansionBoundedDeterministic ==
    /\ \A i \in 1..Len(p_out) :
          /\ ~p_in.semantic_search => p_out[i] = <<p_in.query>>
          /\ Len(p_out[i]) <= 4
          /\ p_in.query \in Range(p_out[i])
    /\ Len(p_out) = 2 => p_out[1] = p_out[2]

----------------------------------------------------------------------------
(* PaperRecommendationEngine._hybrid_recommendations *)

R_collab ==
    <<83, 105, 109, 105, 108, 97, 114, 32, 117, 115, 101, 114, 115, 32,
      108, 105, 107, 101, 100, 32, 116, 104, 105, 115, 32, 112, 97, 112,
      101, 114>>

R_citation ==
    <<70, 114, 101, 113, 117, 101, 110, 116, 108, 121, 32, 99, 105, 116,
      101, 100, 32, 105, 110, 32, 121, 111, 117, 114, 32, 102, 105, 101,
      108, 100>>

R_content ==
    <<82, 101, 108, 97, 116, 101, 100, 32, 116, 111, 32, 105, 110, 116,
      101, 114, 101, 115, 116, 58, 32, 120>>

R_other ==
    <<82, 101, 108, 97, 116, 101, 100, 32, 116, 111, 32, 105, 110, 116,
      101, 114, 101, 115, 116, 58, 32, 121>>

S_semicolon_sp ==
    <<59, 32>>

MaxCandidates == 2

(* scores are kept as integers: the float score times SCORE_UNIT, so that the
   halves and quarters of scores given in tenths stay whole *)
SCORE_UNIT == 40

(* 0.8 and 0.7 *)
SCORE_COLLAB == 8 * (SCORE_UNIT \div 10)
SCORE_CITATION == 7 * (SCORE_UNIT \div 10)

PaperIds == {"X", "Y"}

(* a recommendation dict: id ("" when missing), score, reason *)
Rec(id, score, reason) == [id |-> id, score |-> score, reason |-> reason]

(* sequences of at most MaxCandidates elements of S, without repetition *)
DistinctSeqs(S) ==
    {s \in UNION {[1..n -> S] : n \in 0..MaxCandidates} :
        \A i, j \in 1..Len(s) : i # j => s[i] # s[j]}

DistinctById(s) == \A i, j \in 1..Len(s) : i # j => s[i].id # s[j].id

(* candidate lists handed to the merge step as separate dicts *)
MergeRecs ==
    { Rec("X", 6 * SCORE_UNIT, R_content), Rec("X", 8 * SCORE_UNIT, R_other),
      Rec("Y", 6 * SCORE_UNIT, R_other), Rec("", 8 * SCORE_UNIT, R_content) }

MergeLists == {s \in DistinctSeqs(MergeRecs) : DistinctById(s)}

(* what the content branch returns: fresh dicts from Fetcher.search *)
ContentRecs ==
    { Rec(id, s, R_content) : id \in PaperIds, s \in {16, 36} }

ContentLists == {s \in DistinctSeqs(ContentRecs) : DistinctById(s)}

(* the heap of dict objects: heap[ref] is the dict the reference ref names *)
Alloc(heap, recs) == heap \o recs

(* references of the dicts just allocated *)
NewRefs(heap, recs) == [i \in 1..Len(recs) |-> Len(heap) + i]

(* self.paper_cache: each id has one dict object, the one _get_paper_data
   returns on every call *)
PaperCacheRef(id) == IF id = "X" THEN 1 ELSE 2

InitialHeap == <<Rec("X", 0, S_empty), Rec("Y", 0, S_empty)>>

(* the conversion loop of the collaborative and the citation branch: the
   cached dict of each id gets the branch's score and reason, in place *)
RECURSIVE Stamp(_, _, _, _)
Stamp(heap, ids, score, reason) ==
    IF ids = <<>> THEN heap
    ELSE Stamp([heap EXCEPT ![PaperCacheRef(ids[1])] =
                    Rec(ids[1], score, reason)],
               Tail(ids), score, reason)

(* variant: the scores of duplicates are added *)
Average_Sum(a, b) == a + b

(* (existing score + rec score) / 2 *)
Average(a, b) == (a + b) \div 2

NoRef == [id \in PaperIds |-> 0]

(* the `for rec in all_recommendations` loop from position i on; first is
   the dict `seen`, order its keys in insertion order *)
RECURSIVE MergeFrom(_, _, _, _, _)
MergeFrom(heap, refs, i, first, order) ==
    IF i > Len(refs) THEN [heap |-> heap, first |-> first, order |-> order]
    ELSE LET rec == heap[refs[i]]
             paper_id == rec.id
         IN IF paper_id = "" THEN MergeFrom(heap, refs, i + 1, first, order)
            ELSE IF first[paper_id] # 0
            THEN LET e == first[paper_id]
                     scored == [heap EXCEPT ![e].score =
                                    Average(heap[e].score, heap[refs[i]].score)]
                     joined == [scored EXCEPT ![e].reason =
                                    scored[e].reason \o S_semicolon_sp
                                        \o scored[refs[i]].reason]
                 IN MergeFrom(joined, refs, i + 1, first, order)
            ELSE MergeFrom(heap, refs, i + 1,
                           [first EXCEPT ![paper_id] = refs[i]],
                           Append(order, paper_id))

(* the merge, the sort by combined score and the slice to limit *)
HybridMerge(heap, refs, lim) ==
    LET m == MergeFrom(heap, refs, 1, NoRef, <<>>)
        items == [k \in 1..Len(m.order) |->
                     [rec |-> m.heap[m.first[m.order[k]]],
                      key |-> m.heap[m.first[m.order[k]]].score]]
        sorted == SortByKeyDesc(items)
    IN Take([k \in 1..Len(sorted) |-> sorted[k].rec], lim)

(* the merge step on two candidate lists of separate dicts *)
MergeSeparate ==
    /\ p_pc = "in"
    /\ p_in.kind = "merge"
    /\ LET heap == Alloc(InitialHeap, p_in.a \o p_in.b)
           refs == NewRefs(InitialHeap, p_in.a \o p_in.b)
       IN p_out' = HybridMerge(heap, refs, p_in.limit)
    /\ p_pc' = "out"
    /\ UNCHANGED <<p_in, restVars>>

(* _hybrid_recommendations: the three branches, then the merge *)
HybridRun ==
    /\ p_pc = "in"
    /\ p_in.kind = "hybrid"
    /\ LET content_heap == Alloc(InitialHeap, p_in.content)
           content_rec == NewRefs(InitialHeap, p_in.content)
           collab_heap == Stamp(content_heap, p_in.collab, SCORE_COLLAB, R_collab)
           collab_rec == [i \in 1..Len(p_in.collab) |-> PaperCacheRef(p_in.collab[i])]
           citation_heap ==
               Stamp(collab_heap, p_in.citation, SCORE_CITATION, R_citation)
           citation_rec ==
               [i \in 1..Len(p_in.citation) |-> PaperCacheRef(p_in.citation[i])]
       IN p_out' = HybridMerge(citation_heap,
                               content_rec \o collab_rec \o citation_rec,
                               p_in.limit)
    /\ p_pc' = "out"
    /\ UNCHANGED <<p_in, restVars>>

HybridLimits == {MaxCandidates, 3 * MaxCandidates}

InitHybrid ==
    /\ IdleButPure
    /\ p_pc = "in"
    /\ \/ p_in \in [kind : {"merge"}, a : MergeLists, b : MergeLists,
                    limit : {2 * MaxCandidates}]
       \/ p_in \in [kind : {"hybrid"}, content : ContentLists,
                    collab : DistinctSeqs(PaperIds),
                    citation : DistinctSeqs(PaperIds), limit : HybridLimits]
    /\ p_out = <<>>

NextHybrid ==
    \/ MergeSeparate
    \/ HybridRun

SpecHybrid == InitHybrid /\ [][NextHybrid]_vars

----------------------------------------------------------------------------
(* Properties of PaperRecommendationEngine._hybrid_recommendations *)

(* the records of list s that carry the id *)
WithId(s, id) == SelectSeq(s, LAMBDA r : r.id = id)

(* C24: the merge step on two lists of separate records gives one entry per
   id; an id held by both lists gets the mean of the two scores (7 for 6 and
   8) and both reasons joined by "; ", an id that occurs once keeps its score
   and reason *)
C24_MergeAveragesPairs ==
    (p_pc = "out" /\ p_in.kind = "merge") =>
        \A id \in PaperIds :
            LET ina == WithId(p_in.a, id)
                inb == WithId(p_in.b, id)
                out == WithId(p_out, id)
            IN IF ina # <<>> /\ inb # <<>>
               THEN /\ Len(out) = 1
                    /\ 2 * out[1].score = ina[1].score + inb[1].score
                    /\ ({ina[1].score, inb[1].score}
                           = {6 * SCORE_UNIT, 8 * SCORE_UNIT}
                          => out[1].score = 7 * SCORE_UNIT)
                    /\ out[1].reason = ina[1].reason \o S_semicolon_sp \o inb[1].reason
               ELSE out = ina \o inb

C24_Witness ==
    /\ p_pc = "out"
    /\ p_in.kind = "merge"
    /\ p_in.a = <<Rec("X", 6 * SCORE_UNIT, R_content), Rec("Y", 6 * SCORE_UNIT, R_other)>>
    /\ p_in.b = <<Rec("X", 8 * SCORE_UNIT, R_other)>>
    /\ p_out = <<Rec("X", 7 * SCORE_UNIT, R_content \o S_semicolon_sp \o R_other),
                 Rec("Y", 6 * SCORE_UNIT, R_other)>>

(* the scores and the reasons the branches of a hybrid run gave the id, in
   the order content, collaborative, citation *)
BranchScores(id) ==
    [i \in 1..Len(WithId(p_in.content, id)) |-> WithId(p_in.content, id)[i].score]
    \o (IF id \in Range(p_in.collab) THEN <<SCORE_COLLAB>> ELSE <<>>)
    \o (IF id \in Range(p_in.citation) THEN <<SCORE_CITATION>> ELSE <<>>)

BranchReasons(id) ==
    [i \in 1..Len(WithId(p_in.content, id)) |-> WithId(p_in.content, id)[i].reason]
    \o (IF id \in Range(p_in.collab) THEN <<R_collab>> ELSE <<>>)
    \o (IF id \in Range(p_in.citation) THEN <<R_citation>> ELSE <<>>)

RECURSIVE Sum(_)
Sum(s) == IF s = <<>> THEN 0 ELSE s[1] + Sum(Tail(s))

(* C25: in a hybrid run an id produced by more than one branch appears
   exactly once in the merged set, with the average of the scores the
   branches gave it (0.75 for 0.8 and 0.7; the mean of three when all three
   produce it) and a reason holding the reason of each of those branches *)
C25_HybridAveragesBranches ==
    (p_pc = "out" /\ p_in.kind = "hybrid" /\ p_in.limit >= Cardinality(PaperIds)) =>
        \A id \in PaperIds :
            Len(BranchScores(id)) > 1 =>
                LET out == WithId(p_out, id) IN
                /\ Len(out) = 1
                /\ Len(BranchScores(id)) * out[1].score = Sum(BranchScores(id))
                /\ \A k \in 1..Len(BranchReasons(id)) :
                      IsSubstring(BranchReasons(id)[k], out[1].reason)

----------------------------------------------------------------------------
(* PaperRecommendationEngine._calculate_diversity_score *)

MaxBatch == 3

Author_a == <<97>>
Author_b == <<98>>
Journal_J == <<74>>

(* a recommendation as enrichment reads it: id, authors, journal *)
Candidate(id, authors, journal) ==
    [id |-> id, authors |-> authors, journal |-> journal]

Candidates ==
    { Candidate("X", <<Author_a, Author_b>>, Journal_J),
      Candidate("Y", <<Author_b, Author_a>>, Journal_J),
      Candidate("Z", <<Author_a>>, S_empty),
      Candidate("W", <<>>, S_empty),
      Candidate("X", <<>>, Journal_J) }

Batches == UNION {[1..n -> Candidates] : n \in 1..MaxBatch}

(* a float as an exact fraction *)
Fraction(num, den) == [num |-> num, den |-> den]

(* 2 * overlap_score of a pair: author_overlap + journal_overlap *)
Overlap2(paper, other_paper) ==
    LET paper_authors == Range(paper.authors)
        other_authors == Range(other_paper.authors)
        author_overlap ==
            IF paper_authors # {} /\ other_authors # {}
            THEN Cardinality(paper_authors \cap other_authors) ELSE 0
        journal_overlap ==
            IF paper.journal = other_paper.journal /\ paper.journal # <<>>
            THEN 1 ELSE 0
    IN author_overlap + journal_overlap

(* sum(diversity_scores) / len(diversity_scores), each score being
   1 - overlap_score, over the papers of the batch with another id *)
_calculate_diversity_score(paper, batch) ==
    IF Len(batch) <= 1 THEN Fraction(1, 1)
    ELSE LET others == SelectSeq(batch, LAMBDA o : o.id # paper.id)
             halves == [i \in 1..Len(others) |-> 2 - Overlap2(paper, others[i])]
         IN IF others = <<>> THEN Fraction(1, 1)
            ELSE Fraction(Sum(halves), 2 * Len(others))

(* _enrich_recommendations: the diversity_score of every recommendation *)
Enrich ==
    /\ p_pc = "in"
    /\ p_out' = [i \in 1..Len(p_in.batch) |->
                    _calculate_diversity_score(p_in.batch[i], p_in.batch)]
    /\ p_pc' = "out"
    /\ UNCHANGED <<p_in, restVars>>

InitDiversity ==
    /\ IdleButPure
    /\ p_pc = "in"
    /\ p_in \in [batch : Batches]
    /\ p_out = <<>>

NextDiversity == Enrich

SpecDiversity == InitDiversity /\ [][NextDiversity]_vars

(* C27: every diversity_score of a batch lies between 0 and 1, and it is
   exactly 1 when the batch holds a single recommendation *)
C27_DiversityInUnitRange ==
    p_pc = "out" =>
        \A i \in 1..Len(p_out) :
            /\ p_out[i].den > 0
            /\ 0 <= p_out[i].num
            /\ p_out[i].num <= p_out[i].den
            /\ Len(p_in.batch) = 1 => p_out[i].num = p_out[i].den

====
